---- MODULE Spec2Model ----
(***************************************************************************)
(* Model of log_scanner.py: the firewall-log burst scanner.                *)
(*                                                                         *)
(* Text that the program parses character by character (addresses,        *)
(* duration strings) is a sequence of one-character strings.  A datetime   *)
(* is the number of seconds since 1 January 00:00:00 of the current year   *)
(* (every event is anchored to that year, line 104), a timedelta is a      *)
(* number of seconds.  The range limit of datetime (year 9999) is not      *)
(* modelled: windows stay far below it.                                    *)
(***************************************************************************)
EXTENDS Integers, Sequences, FiniteSets, TLC

\* ------------------------------------------------------------------ bounds
MaxLines == 3
MaxLen == 4

\* datetime.now().year, the year every parsed timestamp is anchored to
CurrentYear == 2026

\* ------------------------------------------------------------ text helpers
Digits == {"0", "1", "2", "3", "4", "5", "6", "7", "8", "9"}
HexLetters == {"a", "b", "c", "d", "e", "f", "A", "B", "C", "D", "E", "F"}

DigitVal(c) ==
    CASE c = "0" -> 0 [] c = "1" -> 1 [] c = "2" -> 2 [] c = "3" -> 3
      [] c = "4" -> 4 [] c = "5" -> 5 [] c = "6" -> 6 [] c = "7" -> 7
      [] c = "8" -> 8 [] c = "9" -> 9

\* int() of a string of decimal digits
RECURSIVE DecimalValue(_)
DecimalValue(s) ==
    IF s = <<>> THEN 0
    ELSE 10 * DecimalValue(SubSeq(s, 1, Len(s) - 1)) + DigitVal(s[Len(s)])

AllIn(s, chars) == \A k \in 1..Len(s) : s[k] \in chars

\* str.split(sep) on a sequence of characters
RECURSIVE Split(_, _)
Split(s, sep) ==
    IF \A k \in 1..Len(s) : s[k] # sep THEN <<s>>
    ELSE LET p == CHOOSE k \in 1..Len(s) :
                      s[k] = sep /\ \A m \in 1..(k - 1) : s[m] # sep
         IN <<SubSeq(s, 1, p - 1)>> \o Split(SubSeq(s, p + 1, Len(s)), sep)

\* str.lower() on the words the log and the options use
Lower(w) ==
    CASE w = "BLOCKED" -> "blocked"
      [] w = "Blocked" -> "blocked"
      [] w = "ALLOWED" -> "allowed"
      [] w = "TCP" -> "tcp"
      [] w = "UDP" -> "udp"
      [] w = "ICMP" -> "icmp"
      [] OTHER -> w

LowerChar(c) ==
    CASE c = "S" -> "s" [] c = "M" -> "m" [] c = "H" -> "h" [] c = "D" -> "d"
      [] OTHER -> c

\* --------------------------------------------- parse_duration_to_seconds
Multiplier(u) ==
    CASE u = "s" -> 1 [] u = "m" -> 60 [] u = "h" -> 3600 [] u = "d" -> 86400

DurationError == [ok |-> FALSE, seconds |-> 0]

parse_duration_to_seconds(duration_str) ==
    IF duration_str = <<>>
       \/ LowerChar(duration_str[Len(duration_str)]) \notin {"s", "m", "h", "d"}
    THEN DurationError
    ELSE LET unit == LowerChar(duration_str[Len(duration_str)])
             magnitude == SubSeq(duration_str, 1, Len(duration_str) - 1)
         IN IF magnitude = <<>> \/ ~AllIn(magnitude, Digits)
            THEN DurationError
            ELSE [ok |-> TRUE, seconds |-> DecimalValue(magnitude) * Multiplier(unit)]

\* -------------------------------------------------- ipaddress.ip_address
\* One dotted octet: decimal digits only, at most three, no leading zero, <= 255.
OctetOk(o) ==
    /\ o # <<>>
    /\ AllIn(o, Digits)
    /\ Len(o) <= 3
    /\ (Len(o) > 1 => o[1] # "0")
    /\ DecimalValue(o) <= 255

IsIPv4(s) ==
    LET octets == Split(s, ".")
    IN Len(octets) = 4 /\ \A k \in 1..4 : OctetOk(octets[k])

HextetOk(h) == h # <<>> /\ Len(h) <= 4 /\ AllIn(h, Digits \cup HexLetters)

HasDot(s) == \E k \in 1..Len(s) : s[k] = "."

\* a dotted-quad tail stands for two hextets
Ipv6Parts(raw) ==
    IF HasDot(raw[Len(raw)])
    THEN SubSeq(raw, 1, Len(raw) - 1) \o <<<<"0">>, <<"0">>>>
    ELSE raw

\* the positions of an empty part strictly inside: where "::" stands
Ipv6Skips(parts) == {k \in 2..(Len(parts) - 1) : parts[k] = <<>>}

\* hextets in front of and behind the "::" at position sk
Ipv6Hi(parts, sk) == IF parts[1] = <<>> THEN sk - 2 ELSE sk - 1
Ipv6Lo(parts, sk) ==
    IF parts[Len(parts)] = <<>> THEN Len(parts) - sk - 1 ELSE Len(parts) - sk

Ipv6WithSkip(parts, sk) ==
    /\ (parts[1] = <<>> => Ipv6Hi(parts, sk) = 0)
    /\ (parts[Len(parts)] = <<>> => Ipv6Lo(parts, sk) = 0)
    /\ 8 - (Ipv6Hi(parts, sk) + Ipv6Lo(parts, sk)) >= 1
    /\ \A k \in 1..Len(parts) :
          (k # sk /\ ~(k = 1 /\ parts[1] = <<>>)
                  /\ ~(k = Len(parts) /\ parts[k] = <<>>)) => HextetOk(parts[k])

Ipv6PartsOk(parts) ==
    /\ Len(parts) <= 9
    /\ Cardinality(Ipv6Skips(parts)) <= 1
    /\ IF Ipv6Skips(parts) # {}
       THEN Ipv6WithSkip(parts, CHOOSE k \in Ipv6Skips(parts) : TRUE)
       ELSE Len(parts) = 8 /\ \A k \in 1..Len(parts) : HextetOk(parts[k])

Ipv6Ok(raw) ==
    /\ Len(raw) >= 3
    /\ HasDot(raw[Len(raw)]) => IsIPv4(raw[Len(raw)])
    /\ Ipv6PartsOk(Ipv6Parts(raw))

IsIPv6(s) == Ipv6Ok(Split(s, ":"))

\* ip_obj.version, 0 when ip_address raises ValueError
IpVersion(s) == IF IsIPv4(s) THEN 4 ELSE IF IsIPv6(s) THEN 6 ELSE 0

\* ----------------------------------------------------- datetime.strptime
MonthNames == <<"Jan", "Feb", "Mar", "Apr", "May", "Jun",
                "Jul", "Aug", "Sep", "Oct", "Nov", "Dec">>

\* strptime builds the date in its default year 1900, which is not a leap year
DaysInMonth1900 == <<31, 28, 31, 30, 31, 30, 31, 31, 30, 31, 30, 31>>

IsLeap(y) == (y % 4 = 0 /\ y % 100 # 0) \/ y % 400 = 0

MonthIndex(mon) == CHOOSE k \in 1..12 : MonthNames[k] = mon

RECURSIVE DaysBefore(_, _)
DaysBefore(m, y) ==
    IF m = 1 THEN 0
    ELSE DaysBefore(m - 1, y) + DaysInMonth1900[m - 1]
         + (IF m - 1 = 2 /\ IsLeap(y) THEN 1 ELSE 0)

TimeError == -1

\* datetime.strptime(tok, "%b %d %H:%M:%S").replace(year=datetime.now().year);
\* TimeError stands for the ValueError
Strptime(tok) ==
    IF /\ \E k \in 1..12 : MonthNames[k] = tok.mon
       /\ Len(tok.clock) = 3
       /\ tok.clock[1] <= 23 /\ tok.clock[2] <= 59 /\ tok.clock[3] <= 59
       /\ tok.day >= 1
       /\ tok.day <= DaysInMonth1900[MonthIndex(tok.mon)]
    THEN (DaysBefore(MonthIndex(tok.mon), CurrentYear) + tok.day - 1) * 86400
         + tok.clock[1] * 3600 + tok.clock[2] * 60 + tok.clock[3]
    ELSE TimeError

\* ------------------------------------------------------------ log lines
\* A log line is the fields log_pattern looks for: the leading timestamp
\* token (mon = "" when the line does not start with one), the chain word in
\* front of "-<rule>:", the rule word, the text that follows "SRC=" and the
\* word that follows "PROTO=" ("" and <<>> when the token is absent).
IpClass == Digits \cup HexLetters \cup {".", ":"}

\* mutant: the address group takes every character up to the next blank
RECURSIVE RegexIpCapture_NonBlank(_)
RegexIpCapture_NonBlank(src) ==
    IF src = <<>> \/ src[1] = " " THEN <<>>
    ELSE <<src[1]>> \o RegexIpCapture_NonBlank(Tail(src))

\* (?P<ip>[\d\.:a-fA-F]+): the longest run of class characters after "SRC="
RECURSIVE RegexIpCapture(_)
RegexIpCapture(src) ==
    IF src = <<>> \/ src[1] \notin IpClass THEN <<>>
    ELSE <<src[1]>> \o RegexIpCapture(Tail(src))

\* log_pattern.search(line) is not None
RegexMatch(line) ==
    /\ line.ts.mon # ""
    /\ line.chain \in {"IPTABLES", "IP6TABLES"}
    /\ line.rule # ""
    /\ RegexIpCapture(line.src) # <<>>
    /\ line.proto # ""

\* mutant: a line is skipped only when both the rule and the protocol differ
FilterPass_And(line, a) ==
    ~(Lower(line.rule) # a.rule /\ Lower(line.proto) # a.type)

\* the negation of the test that skips a line at line 98
FilterPass(line, a) ==
    ~(Lower(line.rule) # a.rule \/ Lower(line.proto) # a.type)

\* ip_timestamps[ip].append(log_time) on the defaultdict(list)
IndexAppend(index, ip, t) ==
    [k \in (DOMAIN index) \cup {ip} |->
        IF k = ip
        THEN (IF ip \in DOMAIN index THEN index[ip] ELSE <<>>) \o <<t>>
        ELSE index[k]]

\* insertion order of the dict's keys
OrderAppend(order, ip) ==
    IF \E k \in 1..Len(order) : order[k] = ip THEN order ELSE order \o <<ip>>

EmptyIndex == [total_lines |-> 0, matched_lines |-> 0,
               ip_timestamps |-> <<>>, ip_order |-> <<>>]

\* one iteration of the loop over the file's lines
ProcessLine(st, line, a) ==
    LET counted == [st EXCEPT !.total_lines = @ + 1]
    IN IF ~RegexMatch(line) THEN counted
       ELSE IF ~FilterPass(line, a) THEN counted
       ELSE LET matched == [counted EXCEPT !.matched_lines = @ + 1]
                log_time == Strptime(line.ts)
                ip == RegexIpCapture(line.src)
            IN IF log_time = TimeError THEN matched
               ELSE [matched EXCEPT
                        !.ip_timestamps = IndexAppend(@, ip, log_time),
                        !.ip_order = OrderAppend(@, ip)]

\* the whole loop over a file
RECURSIVE ReadAll(_, _)
ReadAll(file, a) ==
    IF file = <<>> THEN EmptyIndex
    ELSE ProcessLine(ReadAll(SubSeq(file, 1, Len(file) - 1), a), file[Len(file)], a)

\* --------------------------------------------------------- window scanner
\* list.sort() on a list of datetimes
RECURSIVE InsertSorted(_, _)
InsertSorted(x, s) ==
    IF s = <<>> THEN <<x>>
    ELSE IF x < s[1] THEN <<x>> \o s
    ELSE <<s[1]>> \o InsertSorted(x, Tail(s))

\* mutant: the timeline is scanned in arrival order
SortTimestamps_None(s) == s

RECURSIVE SortTimestamps(_)
SortTimestamps(s) ==
    IF s = <<>> THEN <<>>
    ELSE InsertSorted(s[Len(s)], SortTimestamps(SubSeq(s, 1, Len(s) - 1)))

\* mutant: the window laid out backwards from its start
WindowEnd_Minus(window_start_time, delta) == window_start_time - delta

\* window_end_time = window_start_time + within_delta
WindowEnd(window_start_time, delta) == window_start_time + delta

\* mutant: the boundary excluded from the window
HitsInWindow_Strict(ts, i, delta) ==
    1 + Cardinality({j \in (i + 1)..Len(ts) : ts[j] < ts[i] + delta})

\* hits_in_window for the start index i (indices from 1)
HitsInWindow(ts, i, delta) ==
    1 + Cardinality({j \in (i + 1)..Len(ts) : ts[j] <= WindowEnd(ts[i], delta)})

\* mutant: the loop bound one short
StartCount_OffByOne(n, howmany) == n - howmany

\* len(timestamps) - args.howmany + 1: how many start indices the loop tries
StartCount(n, howmany) == n - howmany + 1

\* mutant: no break after the dispatch
AfterDispatch_NoBreak(i, last) == i + 1

\* the index the loop goes on with after an address was dispatched: the break
AfterDispatch(i, last) == last + 1

\* mutant: the suffix appended whatever the family
TargetIpset_SuffixAlways(base, version) == base \o "_v6"

\* target_ipset
TargetIpset(base, version) == IF version = 6 THEN base \o "_v6" ELSE base

SinkOutcomes == {"ok", "CalledProcessError", "FileNotFoundError"}

\* mutant: the failures of the command are not caught
add_to_ipset_Uncaught(ipset_name, ip, timeout_seconds, dryrun, outcome) ==
    IF dryrun
    THEN [prints |-> <<"DRYRUN">>, cmds |-> <<>>, raised |-> FALSE]
    ELSE [prints |-> <<"ACTION">>,
          cmds |-> <<[argv |-> <<"ipset", "add", ipset_name, ip, "timeout",
                                  timeout_seconds, "-exist">>,
                      outcome |-> outcome]>>,
          raised |-> outcome # "ok"]

\* mutant: the dry-run flag is not looked at
add_to_ipset_IgnoresDryrun(ipset_name, ip, timeout_seconds, dryrun, outcome) ==
    [prints |-> IF outcome = "ok" THEN <<"ACTION">> ELSE <<"ACTION", "ERROR">>,
     cmds |-> <<[argv |-> <<"ipset", "add", ipset_name, ip, "timeout",
                             timeout_seconds, "-exist">>,
                 outcome |-> outcome]>>,
     raised |-> FALSE]

\* add_to_ipset: what it prints, the command it runs with the command's
\* outcome, and whether an exception leaves the function
add_to_ipset(ipset_name, ip, timeout_seconds, dryrun, outcome) ==
    IF dryrun
    THEN [prints |-> <<"DRYRUN">>, cmds |-> <<>>, raised |-> FALSE]
    ELSE [prints |-> IF outcome = "ok" THEN <<"ACTION">> ELSE <<"ACTION", "ERROR">>,
          cmds |-> <<[argv |-> <<"ipset", "add", ipset_name, ip, "timeout",
                                  timeout_seconds, "-exist">>,
                      outcome |-> outcome]>>,
          raised |-> FALSE]

NoOutput == [warnings |-> <<>>, violations |-> <<>>, sink_calls |-> <<>>,
             prints |-> <<>>, cmds |-> <<>>, triggered |-> {}, raised |-> FALSE]

\* the loop over the start indices of one sorted timeline, from index i on
\* (indices from 1), with the outcome the ipset command would have
RECURSIVE InnerLoop(_, _, _, _, _, _, _)
InnerLoop(ip, ts, a, delta, ttl, outcome, i) ==
    LET last == StartCount(Len(ts), a.howmany)
    IN IF i > last THEN NoOutput
       ELSE IF HitsInWindow(ts, i, delta) >= a.howmany
       THEN IF IpVersion(ip) = 0
            THEN LET rest == InnerLoop(ip, ts, a, delta, ttl, outcome, i + 1)
                 IN [rest EXCEPT !.warnings = <<ip>> \o @]
            ELSE LET target_ipset == TargetIpset(a.ipset, IpVersion(ip))
                     sink == add_to_ipset(target_ipset, ip, ttl, a.dryrun, outcome)
                     rest == IF sink.raised THEN NoOutput
                             ELSE InnerLoop(ip, ts, a, delta, ttl, outcome,
                                            AfterDispatch(i, last))
                 IN [warnings |-> rest.warnings,
                     violations |->
                         <<[ip |-> ip, version |-> IpVersion(ip),
                            window_start |-> ts[i],
                            window_end |-> WindowEnd(ts[i], delta),
                            hit_count |-> HitsInWindow(ts, i, delta)]>>
                         \o rest.violations,
                     sink_calls |->
                         <<[ipset_name |-> target_ipset, ip |-> ip,
                            timeout_seconds |-> ttl, dryrun |-> a.dryrun]>>
                         \o rest.sink_calls,
                     prints |-> sink.prints \o rest.prints,
                     cmds |-> sink.cmds \o rest.cmds,
                     triggered |-> IF sink.raised THEN {} ELSE {ip} \cup rest.triggered,
                     raised |-> sink.raised \/ rest.raised]
       ELSE InnerLoop(ip, ts, a, delta, ttl, outcome, i + 1)

\* lines 119-144 for one item: the short-circuit, the sort, the loop
ScanOne(ip, timestamps, a, delta, ttl, outcome) ==
    IF Len(timestamps) < a.howmany
    THEN [sorted |-> timestamps, out |-> NoOutput]
    ELSE [sorted |-> SortTimestamps(timestamps),
          out |-> InnerLoop(ip, SortTimestamps(timestamps), a, delta, ttl, outcome, 1)]

\* ------------------------------------------------------------------ state
VARIABLES
    pc,                  \* where main() is
    args,                \* the parsed command line
    within_delta,        \* timedelta of --within, in seconds
    removeafter_seconds, \* --removeafter in seconds
    log_exists,          \* whether LOG_FILE can be opened
    log_file,            \* the lines of LOG_FILE
    pos,                 \* how many lines the file iterator has handed out
    ip_timestamps,       \* address -> list of datetimes
    ip_order,            \* the keys of ip_timestamps in insertion order
    total_lines,
    matched_lines,
    scan_idx,            \* how many items of ip_timestamps phase 2 has taken
    triggered_ips,
    violations,          \* the [VIOLATION] reports printed, in order
    warnings,            \* the addresses of the [WARNING] lines printed
    sink_calls,          \* the calls of add_to_ipset, in order
    sink_prints,         \* what add_to_ipset printed, in order
    ipset_cmds,          \* the ipset commands run, with their outcome
    summary              \* the phase 3 summary, once printed

vars == <<pc, args, within_delta, removeafter_seconds, log_exists, log_file, pos,
          ip_timestamps, ip_order, total_lines, matched_lines, scan_idx,
          triggered_ips, violations, warnings, sink_calls, sink_prints,
          ipset_cmds, summary>>

config_vars == <<args, log_exists, log_file>>
index_vars == <<ip_timestamps, ip_order, total_lines, matched_lines>>
output_vars == <<triggered_ips, violations, warnings, sink_calls, sink_prints,
                 ipset_cmds>>

\* ----------------------------------------------------------------- inputs
AddrV4 == <<"1", ".", "2", ".", "3", ".", "4">>
AddrV6 == <<":", ":", "1">>
\* three dotted octets: inside the character class, not an address
AddrBad == <<"1", ".", "2", ".", "3">>

Tok(mon, day, clock) == [mon |-> mon, day |-> day, clock |-> clock]
Line(ts, chain, rule, src, proto) ==
    [ts |-> ts, chain |-> chain, rule |-> rule, src |-> src, proto |-> proto]

\* the text after "SRC=" in a line whose source field is addr
SrcText(addr) == addr \o <<" ", "D", "S", "T">>

Lines ==
    { Line(Tok("Jan", 1, <<0, 0, 0>>), "IPTABLES", "BLOCKED", SrcText(AddrV4), "TCP"),
      Line(Tok("Jan", 1, <<0, 0, 1>>), "IPTABLES", "Blocked", SrcText(AddrV4), "tcp"),
      Line(Tok("Jan", 1, <<0, 0, 0>>), "IP6TABLES", "BLOCKED", SrcText(AddrV6), "TCP"),
      Line(Tok("Jan", 1, <<0, 0, 0>>), "IPTABLES", "BLOCKED", SrcText(AddrBad), "TCP"),
      \* passes the filter, the timestamp does not parse
      Line(Tok("Jan", 1, <<24, 0, 0>>), "IPTABLES", "BLOCKED", SrcText(AddrV4), "TCP"),
      \* another rule
      Line(Tok("Jan", 1, <<0, 0, 0>>), "IPTABLES", "ALLOWED", SrcText(AddrV4), "TCP"),
      \* no address characters after "SRC="
      Line(Tok("Jan", 1, <<0, 0, 0>>), "IPTABLES", "BLOCKED", <<"x">>, "TCP") }

Durations == { <<"0", "s">>, <<"1", "S">>, <<"1", "w">> }

ArgSets ==
    [rule : {"blocked"}, type : {"tcp"}, howmany : 1..2, within : Durations,
     ipset : {"blacklist"}, removeafter : {<<"1", "H">>}, dryrun : BOOLEAN]

RECURSIVE SeqsUpTo(_, _)
SeqsUpTo(S, n) ==
    IF n = 0 THEN {<<>>}
    ELSE LET shorter == SeqsUpTo(S, n - 1)
         IN shorter \cup {Append(q, x) : q \in {r \in shorter : Len(r) = n - 1}, x \in S}

\* ------------------------------------------------------------------- Init
Fresh ==
    /\ within_delta = 0
    /\ removeafter_seconds = 0
    /\ pos = 0
    /\ ip_timestamps = <<>>
    /\ ip_order = <<>>
    /\ total_lines = 0
    /\ matched_lines = 0
    /\ scan_idx = 0
    /\ triggered_ips = {}
    /\ violations = <<>>
    /\ warnings = <<>>
    /\ sink_calls = <<>>
    /\ sink_prints = <<>>
    /\ ipset_cmds = <<>>
    /\ summary = <<>>

Init ==
    /\ pc = "start"
    /\ args \in ArgSets
    /\ \/ log_exists = FALSE /\ log_file = <<>>
       \/ log_exists = TRUE /\ log_file \in SeqsUpTo(Lines, MaxLines)
    /\ Fresh

\* ---------------------------------------------------------------- actions
\* lines 64-69: the two durations, or the error message and return
ParseDurations ==
    /\ pc = "start"
    /\ LET w == parse_duration_to_seconds(args.within)
           r == parse_duration_to_seconds(args.removeafter)
       IN IF w.ok /\ r.ok
          THEN /\ within_delta' = w.seconds
               /\ removeafter_seconds' = r.seconds
               /\ pc' = "open"
          ELSE /\ pc' = "aborted"
               /\ UNCHANGED <<within_delta, removeafter_seconds>>
    /\ UNCHANGED <<config_vars, pos, index_vars, scan_idx, output_vars, summary>>

\* lines 88-89 and 109-111: open the log, or report it missing and return
OpenLog ==
    /\ pc = "open"
    /\ pc' = IF log_exists THEN "read" ELSE "aborted"
    /\ UNCHANGED <<config_vars, within_delta, removeafter_seconds, pos, index_vars,
                   scan_idx, output_vars, summary>>

\* lines 90-107: one line of the file
ReadLine ==
    /\ pc = "read"
    /\ pos < Len(log_file)
    /\ \E st \in {ProcessLine([total_lines |-> total_lines,
                               matched_lines |-> matched_lines,
                               ip_timestamps |-> ip_timestamps,
                               ip_order |-> ip_order], log_file[pos + 1], args)} :
          /\ total_lines' = st.total_lines
          /\ matched_lines' = st.matched_lines
          /\ ip_timestamps' = st.ip_timestamps
          /\ ip_order' = st.ip_order
    /\ pos' = pos + 1
    /\ UNCHANGED <<pc, config_vars, within_delta, removeafter_seconds, scan_idx,
                   output_vars, summary>>

\* lines 113-116: the file is exhausted
EndOfFile ==
    /\ pc = "read"
    /\ pos = Len(log_file)
    /\ pc' = "scan"
    /\ UNCHANGED <<config_vars, within_delta, removeafter_seconds, pos, index_vars,
                   scan_idx, output_vars, summary>>

\* lines 118-144: one item of ip_timestamps.items(); the ipset command, if
\* one is run, ends with one of SinkOutcomes
ScanAddress ==
    /\ pc = "scan"
    /\ scan_idx < Len(ip_order)
    /\ \E outcome \in SinkOutcomes :
          \E ip \in {ip_order[scan_idx + 1]} :
          \E r \in {ScanOne(ip, ip_timestamps[ip], args, within_delta,
                            removeafter_seconds, outcome)} :
             /\ ip_timestamps' = [ip_timestamps EXCEPT ![ip] = r.sorted]
             /\ warnings' = warnings \o r.out.warnings
             /\ violations' = violations \o r.out.violations
             /\ sink_calls' = sink_calls \o r.out.sink_calls
             /\ sink_prints' = sink_prints \o r.out.prints
             /\ ipset_cmds' = ipset_cmds \o r.out.cmds
             /\ triggered_ips' = triggered_ips \cup r.out.triggered
             /\ pc' = IF r.out.raised THEN "crashed" ELSE pc
    /\ scan_idx' = scan_idx + 1
    /\ UNCHANGED <<config_vars, within_delta, removeafter_seconds, pos, ip_order,
                   total_lines, matched_lines, summary>>

\* lines 146-153: the summary
Summary ==
    /\ pc = "scan"
    /\ scan_idx = Len(ip_order)
    /\ summary' = <<[total_lines |-> total_lines,
                     matched_lines |-> matched_lines,
                     unique_ips |-> Cardinality(DOMAIN ip_timestamps),
                     triggered |-> Cardinality(triggered_ips),
                     actioned |-> triggered_ips]>>
    /\ pc' = "done"
    /\ UNCHANGED <<config_vars, within_delta, removeafter_seconds, pos, index_vars,
                   scan_idx, output_vars>>

Next == ParseDurations \/ OpenLog \/ ReadLine \/ EndOfFile \/ ScanAddress \/ Summary

Spec == Init /\ [][Next]_vars

\* ------------------------------------------------- the scanner on its own
\* The state in which phase 2 starts, for a log whose lines all pass the
\* filter and belong to one source address, in every arrival order.
ScanTokens == { Tok("Jan", 1, <<0, 0, 0>>), Tok("Jan", 1, <<0, 0, 10>>),
                Tok("Jan", 1, <<0, 0, 20>>), Tok("Jan", 1, <<0, 1, 1>>) }

ScanDurations == { <<"0", "s">>, <<"1", "0", "s">>, <<"1", "m">>, <<"6", "1", "s">> }

ScanArgSets ==
    [rule : {"blocked"}, type : {"tcp"}, howmany : 1..MaxLen, within : ScanDurations,
     ipset : {"blacklist"}, removeafter : {<<"1", "H">>}, dryrun : {TRUE}]

ScanAddrs == {AddrV4, AddrBad}

ScanFile(ip, toks) ==
    [k \in 1..Len(toks) |-> Line(toks[k], "IPTABLES", "BLOCKED", SrcText(ip), "TCP")]

AfterReading(a, file) ==
    /\ args = a
    /\ log_exists = TRUE
    /\ log_file = file
    /\ pos = Len(file)
    /\ within_delta = parse_duration_to_seconds(a.within).seconds
    /\ removeafter_seconds = parse_duration_to_seconds(a.removeafter).seconds
    /\ \E st \in {ReadAll(file, a)} :
          /\ total_lines = st.total_lines
          /\ matched_lines = st.matched_lines
          /\ ip_timestamps = st.ip_timestamps
          /\ ip_order = st.ip_order
    /\ pc = "scan"

ScanInit ==
    /\ \E a \in ScanArgSets, ip \in ScanAddrs, toks \in SeqsUpTo(ScanTokens, MaxLen) :
          AfterReading(a, ScanFile(ip, toks))
    /\ scan_idx = 0
    /\ triggered_ips = {}
    /\ violations = <<>>
    /\ warnings = <<>>
    /\ sink_calls = <<>>
    /\ sink_prints = <<>>
    /\ ipset_cmds = <<>>
    /\ summary = <<>>

ScanNext == ScanAddress \/ Summary

ScanSpec == ScanInit /\ [][ScanNext]_vars

\* --------------------------------------------- vocabulary of the properties
\* Stated from the description of the scanner, not from the loop above.
Least(S) == CHOOSE x \in S : \A y \in S : x <= y

RemoveAt(q, k) == SubSeq(q, 1, k - 1) \o SubSeq(q, k + 1, Len(q))

\* q in ascending order
RECURSIVE AscendingOf(_)
AscendingOf(q) ==
    IF q = <<>> THEN <<>>
    ELSE LET k == CHOOSE m \in 1..Len(q) : \A o \in 1..Len(q) : q[m] <= q[o]
         IN <<q[k]>> \o AscendingOf(RemoveAt(q, k))

IsAscending(q) == \A k \in 1..(Len(q) - 1) : q[k] <= q[k + 1]

\* the events of an address in arrival order
Arrival(ip) == ReadAll(log_file, args).ip_timestamps[ip]

\* hits(i) of the sorted timeline t, window W
Hits(t, i, W) == 1 + Cardinality({j \in 1..Len(t) : j > i /\ t[j] <= t[i] + W})

QualifyingStarts(t, K, W) == {i \in 1..Len(t) : Hits(t, i, W) >= K}

ReportsOf(ip) == {k \in 1..Len(violations) : violations[k].ip = ip}
SinkCallsOf(ip) == {k \in 1..Len(sink_calls) : sink_calls[k].ip = ip}
CommandsOf(ip) == {k \in 1..Len(ipset_cmds) : ipset_cmds[k].argv[4] = ip}
WarningsOf(ip) == {k \in 1..Len(warnings) : warnings[k] = ip}

Classifiable(ip) == IpVersion(ip) \in {4, 6}

\* the report the description asks for: the least qualifying start of t
ReportIsEarliest(ip, t, K, W) ==
    /\ (ReportsOf(ip) # {}) <=> (QualifyingStarts(t, K, W) # {})
    /\ \A k \in ReportsOf(ip) :
          /\ violations[k].window_start = t[Least(QualifyingStarts(t, K, W))]
          /\ violations[k].window_end = t[Least(QualifyingStarts(t, K, W))] + W
          /\ violations[k].hit_count = Hits(t, Least(QualifyingStarts(t, K, W)), W)
    \* no qualifying start lies beyond the loop bound n - K
    /\ \A i \in QualifyingStarts(t, K, W) : i <= Len(t) - K + 1

SomeInterval(t, K, W) ==
    \E s \in (t[1] - W)..t[Len(t)] :
        Cardinality({j \in 1..Len(t) : s <= t[j] /\ t[j] <= s + W}) >= K

\* K events whose largest and smallest timestamps differ by at most W
SomeCluster(t, K, W) ==
    \E S \in SUBSET (1..Len(t)) :
        Cardinality(S) = K /\ \A x \in S, y \in S : t[x] - t[y] <= W

InWindowCount(arr, s, W) ==
    Cardinality({k \in 1..Len(arr) : s <= arr[k] /\ arr[k] <= s + W})

AnchorValues(arr, K, W) ==
    {v \in {arr[k] : k \in 1..Len(arr)} : InWindowCount(arr, v, W) >= K}

\* the outcome as a function of the multiset of the address's events
OutcomeOfMultiset(ip, arr, K, W) ==
    IF ~Classifiable(ip) \/ AnchorValues(arr, K, W) = {} THEN <<>>
    ELSE <<[ip |-> ip, version |-> IpVersion(ip),
            window_start |-> Least(AnchorValues(arr, K, W)),
            window_end |-> Least(AnchorValues(arr, K, W)) + W,
            hit_count |-> InWindowCount(arr, Least(AnchorValues(arr, K, W)), W)]>>

ViolationsFor(ip) == LET Mine(v) == v.ip = ip IN SelectSeq(violations, Mine)

\* C8: the outcome of an address (no violation, or the one violation with its
\* window_start, window_end and hit_count) is determined by the multiset of its
\* events, whatever their arrival order, duplicates included; every timeline
\* that was scanned is non-decreasing after the sort.
C8_OrderIndependent ==
    /\ pc = "done" =>
          \A ip \in DOMAIN ip_timestamps : \A arr \in {Arrival(ip)} :
              ViolationsFor(ip) = OutcomeOfMultiset(ip, arr, args.howmany, within_delta)
    /\ \A k \in 1..scan_idx :
          Len(ip_timestamps[ip_order[k]]) >= args.howmany =>
              IsAscending(ip_timestamps[ip_order[k]])

\* events that arrived out of order, with a duplicate, and a violation reported
C8_Witness ==
    /\ pc = "done"
    /\ violations # <<>>
    /\ \E ip \in DOMAIN ip_timestamps : \E arr \in {Arrival(ip)} :
          /\ ~IsAscending(arr)
          /\ \E x \in 1..Len(arr), y \in 1..Len(arr) : x # y /\ arr[x] = arr[y]
          /\ ip_timestamps[ip] # arr

\* ---------------------------------------------------------------------- C9
WindowValues == {parse_duration_to_seconds(d).seconds : d \in ScanDurations}

\* the verdict of the scan of the events arr of ip with threshold K and window W
FlaggedWith(ip, arr, K, W) ==
    ScanOne(ip, arr, [args EXCEPT !.howmany = K], W,
            removeafter_seconds, "ok").out.triggered # {}

HasQualifyingWindow(ip) ==
    \E t \in {AscendingOf(ip_timestamps[ip])} :
        QualifyingStarts(t, args.howmany, within_delta) # {}

\* C3: add_to_ipset is invoked at most once per address, and exactly once iff
\* the address has a qualifying window and classifies as v4/v6; at most one
\* violation is emitted per address even when several start indices qualify; a
\* failed command is not run again; an address without a qualifying window
\* causes no invocation.
C3_OneSinkCallPerAddress ==
    /\ \A ip \in DOMAIN ip_timestamps :
          /\ Cardinality(SinkCallsOf(ip)) <= 1
          /\ Cardinality(ReportsOf(ip)) <= 1
          /\ Cardinality(CommandsOf(ip)) <= 1
          /\ ~HasQualifyingWindow(ip) => SinkCallsOf(ip) = {}
    /\ \A k \in 1..Len(sink_calls) : sink_calls[k].ip \in DOMAIN ip_timestamps
    /\ pc = "done" =>
          \A ip \in DOMAIN ip_timestamps :
              (Cardinality(SinkCallsOf(ip)) = 1)
                  <=> (HasQualifyingWindow(ip) /\ Classifiable(ip))

\* an address with two qualifying start indices, dispatched once, the command failed
C3_Witness ==
    /\ pc = "done"
    /\ AddrV4 \in DOMAIN ip_timestamps
    /\ Cardinality(QualifyingStarts(ip_timestamps[AddrV4], args.howmany,
                                    within_delta)) >= 2
    /\ Cardinality(SinkCallsOf(AddrV4)) = 1
    /\ \E k \in CommandsOf(AddrV4) : ipset_cmds[k].outcome # "ok"

\* ---------------------------------------------------------------------- C4
\* C4: a failed ipset command (tool missing, error status) or an address that
\* does not classify does not abort the run: the run never ends in an uncaught
\* exception, after a failed command it is still scanning or has printed the
\* summary, its next address or the summary is always at hand,
\* and at the summary every address with a qualifying window that classifies
\* has its own sink invocation, whatever the order of the addresses and the
\* outcome of the other invocations.
C4_FailureIsolated ==
    /\ pc # "crashed"
    /\ pc = "scan" => scan_idx \in 0..Len(ip_order)
    /\ \A k \in 1..Len(ipset_cmds) :
          ipset_cmds[k].outcome # "ok" => pc \in {"scan", "done"}
    /\ pc = "done" =>
          /\ Len(summary) = 1
          /\ \A ip \in DOMAIN ip_timestamps :
                (HasQualifyingWindow(ip) /\ Classifiable(ip)) => SinkCallsOf(ip) # {}

\* the first command failed, an address did not classify, a later address was
\* still dispatched and the summary printed
C4_Witness ==
    /\ pc = "done"
    /\ Len(summary) = 1
    /\ Len(ipset_cmds) >= 2
    /\ ipset_cmds[1].outcome # "ok"
    /\ warnings # <<>>

\* ---------------------------------------------------------------------- C5
\* the addresses a run on this log flags, whatever the dry-run flag
FlaggedOnInput ==
    {ip \in DOMAIN ReadAll(log_file, [args EXCEPT !.dryrun = FALSE]).ip_timestamps :
        /\ Classifiable(ip)
        /\ \E t \in {AscendingOf(
                ReadAll(log_file, [args EXCEPT !.dryrun = FALSE]).ip_timestamps[ip])} :
              QualifyingStarts(t, args.howmany, within_delta) # {}}

\* C5: with the dry-run flag set no ipset command is ever run, every sink
\* invocation only prints the intended insertion, and the addresses flagged and
\* handed to the sink are the ones a run without the flag flags on the same log.
C5_DryRunMutatesNothing ==
    /\ args.dryrun =>
          /\ ipset_cmds = <<>>
          /\ Len(sink_prints) = Len(sink_calls)
          /\ \A k \in 1..Len(sink_prints) : sink_prints[k] = "DRYRUN"
    /\ pc = "done" =>
          /\ triggered_ips = FlaggedOnInput
          /\ {sink_calls[k].ip : k \in 1..Len(sink_calls)} = FlaggedOnInput
          /\ ~args.dryrun =>
                {ipset_cmds[k].argv[4] : k \in 1..Len(ipset_cmds)} = FlaggedOnInput

\* a dry run that flagged two addresses and ran nothing
C5_Witness ==
    /\ pc = "done"
    /\ args.dryrun
    /\ Cardinality(triggered_ips) = 2
    /\ Len(sink_prints) = 2
    /\ ipset_cmds = <<>>

\* ---------------------------------------------------------------------- C6
\* C6: every sink invocation names the partition of the address's family, the
\* base name with "_v6" appended for IPv6 and the base name itself for IPv4,
\* and carries the configured TTL in seconds and the run's dry-run flag; the
\* command that is run carries the same name and TTL; the base name stays what
\* the command line gave.
C6_PartitionByFamily ==
    /\ args.ipset = "blacklist"
    /\ \A k \in 1..Len(sink_calls) :
          /\ IsIPv6(sink_calls[k].ip) /\ ~IsIPv4(sink_calls[k].ip) =>
                sink_calls[k].ipset_name = "blacklist_v6"
          /\ IsIPv4(sink_calls[k].ip) => sink_calls[k].ipset_name = "blacklist"
          /\ IsIPv4(sink_calls[k].ip) \/ IsIPv6(sink_calls[k].ip)
          /\ sink_calls[k].timeout_seconds = 3600
          /\ sink_calls[k].dryrun = args.dryrun
    /\ \A k \in 1..Len(ipset_cmds) :
          /\ ipset_cmds[k].argv[3] =
                (IF IsIPv4(ipset_cmds[k].argv[4]) THEN "blacklist" ELSE "blacklist_v6")
          /\ ipset_cmds[k].argv[6] = 3600

\* an IPv6 address dispatched first, an IPv4 address after it
C6_Witness ==
    /\ Len(sink_calls) = 2
    /\ sink_calls[1].ip = AddrV6
    /\ sink_calls[1].ipset_name = "blacklist_v6"
    /\ sink_calls[2].ip = AddrV4
    /\ sink_calls[2].ipset_name = "blacklist"

\* ---------------------------------------------------------------------- C7
\* ip is the run of class characters a line read so far has after "SRC="
IsClassRunOfALine(ip) ==
    \E k \in 1..pos :
        /\ Len(log_file[k].src) >= Len(ip)
        /\ SubSeq(log_file[k].src, 1, Len(ip)) = ip
        /\ Len(log_file[k].src) > Len(ip) =>
              log_file[k].src[Len(ip) + 1] \notin Digits \cup HexLetters \cup {".", ":"}

RECURSIVE SumOfLengths(_, _)
SumOfLengths(index, keys) ==
    IF keys = {} THEN 0
    ELSE LET ip == CHOOSE x \in keys : TRUE
         IN Len(index[ip]) + SumOfLengths(index, keys \ {ip})

\* how many timestamps the timelines hold
TotalStored == SumOfLengths(ip_timestamps, DOMAIN ip_timestamps)

\* the line has the shape the pattern asks for, and the rule and protocol of the filter
MeetsCriteria(line) ==
    /\ RegexMatch(line)
    /\ Lower(line.rule) = args.rule
    /\ Lower(line.proto) = args.type

\* among the first n lines: those that became an event, and those that meet the
\* criteria but whose timestamp does not parse
EventLines(n) ==
    {k \in 1..n : MeetsCriteria(log_file[k]) /\ Strptime(log_file[k].ts) # TimeError}
BadTimestampLines(n) ==
    {k \in 1..n : MeetsCriteria(log_file[k]) /\ Strptime(log_file[k].ts) = TimeError}

\* C10 as stated: after the extraction pass 'lines matched' equals the number
\* of timestamps stored across all timelines, and 'total lines' the number of
\* lines read.
C10_AsStated ==
    pc \in {"scan", "done"} =>
        /\ matched_lines = TotalStored
        /\ total_lines = Len(log_file)

\* C10 (amended): 'total lines' equals the number of lines read; the number of
\* timestamps stored equals the number of lines that meet the criteria and whose
\* timestamp parses; 'lines matched' equals the number of timestamps stored plus
\* the number of lines that meet the criteria but whose timestamp fails to parse
\* (such a line is counted as matched and contributes no event).
C10_MatchedCountsBadTimestamps ==
    pc \in {"read", "scan", "done"} =>
        /\ total_lines = pos
        /\ pc # "read" => pos = Len(log_file)
        /\ TotalStored = Cardinality(EventLines(pos))
        /\ matched_lines = TotalStored + Cardinality(BadTimestampLines(pos))

\* a line with an unparsable timestamp was counted as matched, next to an event
C10_Witness ==
    /\ pc = "done"
    /\ BadTimestampLines(pos) # {}
    /\ TotalStored >= 1
    /\ matched_lines = TotalStored + 1

====
